---- MODULE Spec2Model ----
(***************************************************************************)
(* Model of src/schwarzschild_radius.py: the Streamlit script that turns   *)
(* a slider value (log10 of the mass in solar masses) into a Schwarzschild *)
(* radius and draws it against solar-system reference circles.             *)
(*                                                                         *)
(* Numbers.  The script computes with Python floats, IEEE 754 binary64.    *)
(* Here a float is [m |-> mantissa, e |-> exponent] standing for m * 2^e,  *)
(* the mantissa an integer of exactly 53 bits (zero: the empty mantissa),  *)
(* and * and / round to nearest, ties to even, as the hardware does.  All  *)
(* values of the script are positive and far from overflow and underflow   *)
(* (1e-11 .. 1e31).  TLC's integers are 32 bits wide, so a mantissa is a   *)
(* sequence of limbs.  The one transcendental step, 10 ** log10_mass, is   *)
(* taken from a table of the 101 values the C library's pow returns.       *)
(***************************************************************************)
EXTENDS Integers, Sequences, FiniteSets

----------------------------------------------------------------------------
(* Arbitrary-precision naturals: little-endian sequences of limbs in base  *)
(* 2^14 without leading zero limbs; zero is the empty sequence.            *)

LimbBits == 14
Base == 2 ^ LimbBits

RECURSIVE FromInt(_)
FromInt(i) == IF i = 0 THEN << >> ELSE <<i % Base>> \o FromInt(i \div Base)

\* x * k + carry for a small k
RECURSIVE MulC(_, _, _)
MulC(x, k, carry) ==
    IF x = << >>
    THEN FromInt(carry)
    ELSE <<(Head(x) * k + carry) % Base>>
         \o MulC(Tail(x), k, (Head(x) * k + carry) \div Base)

\* Column k of the long multiplication of x by y: the sum of x[i] * y[k+1-i].
RECURSIVE Column(_, _, _, _, _)
Column(x, y, k, i, sum) ==
    IF i > Len(x) \/ i > k
    THEN sum
    ELSE Column(x, y, k, i + 1, sum + x[i] * y[k + 1 - i])

\* Carry propagation over the columns, lowest first.
RECURSIVE Carry(_, _, _)
Carry(cols, k, carry) ==
    IF k > Len(cols)
    THEN FromInt(carry)
    ELSE <<(cols[k] + carry) % Base>>
         \o Carry(cols, k + 1, (cols[k] + carry) \div Base)

MulB(x, y) ==
    IF x = << >> \/ y = << >>
    THEN << >>
    ELSE Carry(<< >> \o [k \in 1..(Len(x) + Len(y) - 1) |->
                            Column(x, y, k, IF k > Len(y) THEN k + 1 - Len(y) ELSE 1, 0)],
               1, 0)

RECURSIVE LessB(_, _)
LessB(x, y) ==
    IF Len(x) # Len(y)
    THEN Len(x) < Len(y)
    ELSE IF x = << >>
         THEN FALSE
         ELSE IF x[Len(x)] # y[Len(x)]
              THEN x[Len(x)] < y[Len(x)]
              ELSE LessB(SubSeq(x, 1, Len(x) - 1), SubSeq(y, 1, Len(x) - 1))

RECURSIVE Strip(_)
Strip(x) ==
    IF x = << >> \/ x[Len(x)] # 0 THEN x ELSE Strip(SubSeq(x, 1, Len(x) - 1))

\* x - y - borrow for x >= y, limb by limb
RECURSIVE SubC(_, _, _)
SubC(x, y, borrow) ==
    IF x = << >>
    THEN << >>
    ELSE <<(Head(x) - (IF y = << >> THEN 0 ELSE Head(y)) - borrow + Base) % Base>>
         \o SubC(Tail(x), IF y = << >> THEN y ELSE Tail(y),
                 IF Head(x) - (IF y = << >> THEN 0 ELSE Head(y)) - borrow < 0
                 THEN 1 ELSE 0)

SubB(x, y) == Strip(SubC(x, y, 0))

RECURSIVE Bits(_)
Bits(i) == IF i = 0 THEN 0 ELSE 1 + Bits(i \div 2)

BitLen(x) == IF x = << >> THEN 0 ELSE (Len(x) - 1) * LimbBits + Bits(x[Len(x)])

RECURSIVE Pow2B(_)
Pow2B(s) == IF s < LimbBits THEN <<2 ^ s>> ELSE <<0>> \o Pow2B(s - LimbBits)

RECURSIVE Pow10B(_)
Pow10B(k) == IF k = 0 THEN <<1>> ELSE MulC(Pow10B(k - 1), 10, 0)

\* floor(x / 2^s)
ShiftRight(x, s) ==
    Strip(<< >> \o [i \in 1..(Len(x) - s \div LimbBits) |->
              (x[i + s \div LimbBits] \div (2 ^ (s % LimbBits)))
              + (IF i + s \div LimbBits < Len(x)
                 THEN (x[i + s \div LimbBits + 1] % (2 ^ (s % LimbBits)))
                      * (2 ^ (LimbBits - (s % LimbBits)))
                 ELSE 0)])

\* bit i of x, counting from 0
BitOf(x, i) == (x[i \div LimbBits + 1] \div (2 ^ (i % LimbBits))) % 2

\* some bit of x below bit s is set
LowBits(x, s) ==
    \/ \E i \in 1..(s \div LimbBits) : x[i] # 0
    \/ x[s \div LimbBits + 1] % (2 ^ (s % LimbBits)) # 0

\* One digit of the long division of r by d (r < d * Base, the top limb of d
\* at least Base / 2): the estimate from the leading limbs is never too
\* small and at most two too large.
Estimate(r, d) ==
    IF Len(r) < Len(d) THEN 0
    ELSE IF ((IF Len(r) > Len(d) THEN r[Len(d) + 1] * Base ELSE 0) + r[Len(d)])
            \div d[Len(d)] > Base - 1
    THEN Base - 1
    ELSE ((IF Len(r) > Len(d) THEN r[Len(d) + 1] * Base ELSE 0) + r[Len(d)])
         \div d[Len(d)]

RECURSIVE Digit(_, _, _)
Digit(r, d, q) == IF q > 0 /\ LessB(r, MulC(d, q, 0)) THEN Digit(r, d, q - 1) ELSE q

\* <<quotient, remainder>> of (quo, r) * Base^steps by d, for r < d.
RECURSIVE LongDiv(_, _, _, _)
LongDiv(r, d, quo, steps) ==
    IF steps = 0 THEN <<quo, r>>
    ELSE LET rb == IF r = << >> THEN r ELSE <<0>> \o r
             q  == Digit(rb, d, Estimate(rb, d))
         IN  LongDiv(SubB(rb, MulC(d, q, 0)), d,
                     IF quo = << >> /\ q = 0 THEN quo ELSE <<q>> \o quo, steps - 1)

----------------------------------------------------------------------------
(* Python floats.                                                          *)

MantissaBits == 53

Zero == [m |-> << >>, e |-> 0]

\* A mantissa that rounding up has carried to 54 bits is a power of two.
Normal(q, e) ==
    IF BitLen(q) > MantissaBits
    THEN [m |-> ShiftRight(q, 1), e |-> e + 1]
    ELSE [m |-> q, e |-> e]

\* The float nearest to the exact value, ties to even.  The exact value is
\* x * 2^e, or lies strictly between x * 2^e and (x + 1) * 2^e when sticky.
Round(x, e, sticky) ==
    IF x = << >> THEN Zero
    ELSE IF BitLen(x) <= MantissaBits
    THEN [m |-> MulB(x, Pow2B(MantissaBits - BitLen(x))),
          e |-> e - (MantissaBits - BitLen(x))]
    ELSE IF BitOf(x, BitLen(x) - MantissaBits - 1) = 1
            /\ (\/ sticky
                \/ LowBits(x, BitLen(x) - MantissaBits - 1)
                \/ BitOf(x, BitLen(x) - MantissaBits) = 1)
         THEN Normal(MulC(ShiftRight(x, BitLen(x) - MantissaBits), 1, 1),
                     e + BitLen(x) - MantissaBits)
         ELSE [m |-> ShiftRight(x, BitLen(x) - MantissaBits),
               e |-> e + BitLen(x) - MantissaBits]

\* float(i) for a Python int given as a natural
ToFloat(x) == Round(x, 0, FALSE)

\* a * b
FMul(a, b) ==
    IF a.m = << >> \/ b.m = << >> THEN Zero
    ELSE Round(MulB(a.m, b.m), a.e + b.e, FALSE)

Quotient(qr, e) == Round(qr[1], e, qr[2] # << >>)

\* a / b for b # 0: 56 quotient bits after the leading one, then rounding.
\* Both mantissas are scaled by 8 so that the divisor's top limb is full.
FDiv(a, b) ==
    IF a.m = << >> THEN Zero
    ELSE IF LessB(a.m, b.m)
         THEN Quotient(LongDiv(MulC(a.m, 8, 0), MulC(b.m, 8, 0), << >>, 4),
                       a.e - b.e - 4 * LimbBits)
         ELSE Quotient(LongDiv(MulC(SubB(a.m, b.m), 8, 0), MulC(b.m, 8, 0), <<1>>, 4),
                       a.e - b.e - 4 * LimbBits)

\* a < b, for floats that are not negative
FLess(a, b) ==
    IF b.m = << >> THEN FALSE
    ELSE IF a.m = << >> THEN TRUE
    ELSE a.e < b.e \/ (a.e = b.e /\ LessB(a.m, b.m))

FEq(a, b)   == a = b
FLeq(a, b)  == ~FLess(b, a)
FMax(a, b)  == IF FLess(a, b) THEN b ELSE a         \* Python max(a, b)

\* Literals: a Python int, the decimal i * 10^-k and i * 10^k, each rounded
\* once, as the parser rounds a literal.
Whole(i)  == ToFloat(FromInt(i))
Dec(i, k) == FDiv(Whole(i), ToFloat(Pow10B(k)))
Sci(i, k) == ToFloat(MulB(FromInt(i), Pow10B(k)))


----------------------------------------------------------------------------
(* Physical constants and catalogs (module level of the script).           *)

G        == Dec(667430, 16)           \* 6.67430e-11
c        == FromInt(299792458)      \* a Python int
M_sun_kg == Sci(1989, 27)             \* 1.989e30

R_sun_schwarzschild_km ==
    FDiv(FDiv(FMul(FMul(Whole(2), G), M_sun_kg), ToFloat(MulB(c, c))),
         Whole(1000))

AU_KM == Dec(1495978707, 1)           \* 149_597_870.7

\* The dict keeps insertion order; entries are <<name, orbital radius in km>>.
ORBITS_KM ==
    << <<"Mercury",  FMul(Dec(387, 3),   AU_KM)>>,
       <<"Venus",    FMul(Dec(723, 3),   AU_KM)>>,
       <<"Earth",    FMul(Dec(10, 1),    AU_KM)>>,
       <<"Mars",     FMul(Dec(1524, 3),  AU_KM)>>,
       <<"Ceres",    FMul(Dec(2766, 3),  AU_KM)>>,
       <<"Jupiter",  FMul(Dec(5203, 3),  AU_KM)>>,
       <<"Saturn",   FMul(Dec(9537, 3),  AU_KM)>>,
       <<"Uranus",   FMul(Dec(1919, 2),  AU_KM)>>,
       <<"Neptune",  FMul(Dec(3007, 2),  AU_KM)>>,
       <<"Pluto",    FMul(Dec(3948, 2),  AU_KM)>>,
       <<"Makemake", FMul(Dec(4543, 2),  AU_KM)>>,
       <<"Eris",     FMul(Dec(6786, 2),  AU_KM)>> >>

OrbitKm(name) ==
    (CHOOSE i \in 1..Len(ORBITS_KM) : ORBITS_KM[i][1] = name)

SUN_RADIUS_KM          == Whole(695700)
JUPITER_RADIUS_KM      == Whole(69911)
EARTH_RADIUS_KM        == Whole(6371)
MOON_RADIUS_KM         == Whole(1738)
PLUTO_RADIUS_KM        == Whole(1188)
CERES_RADIUS_KM        == Whole(476)
VESTA_RADIUS_KM        == Whole(262)
ENCELADUS_RADIUS_KM    == Whole(252)
EROS_RADIUS_KM         == Dec(84, 1)
HALLEY_NUCLEUS_KM      == Whole(11)
NEUTRON_STAR_RADIUS_KM == Whole(10)

SUN_MIN_FRACTION == Dec(1, 1)

HALF_MERCURY_ORBIT_KM == FMul(Dec(5, 1), ORBITS_KM[OrbitKm("Mercury")][2])

AU_SWITCH_KM == FMul(Dec(5, 2), AU_KM)

----------------------------------------------------------------------------
(* State.                                                                  *)

VARIABLES
    log10_mass,   \* the slider, in tenths
    passes,       \* script runs completed or aborted so far
    entry,        \* function entered last: "none", "main", or a plot function
    R_s_km,       \* Schwarzschild radius in km
    use_au,       \* unit flag
    plotted,      \* plot function that drew the axes, "none" before any
    ax,           \* what the plot function left on the axes
    figs,         \* numbers of the pyplot figures that are open
    g             \* the module namespace: the constants and catalogs by name

vars == <<log10_mass, passes, entry, R_s_km, use_au, plotted, ax, figs, g>>

\* The names bound at module level.  No function of the script assigns to
\* them or mutates the catalogs.
ModuleGlobals ==
    [R_sun_schwarzschild_km |-> R_sun_schwarzschild_km,
     AU_KM                  |-> AU_KM,
     ORBITS_KM              |-> ORBITS_KM,
     SUN_RADIUS_KM          |-> SUN_RADIUS_KM,
     JUPITER_RADIUS_KM      |-> JUPITER_RADIUS_KM,
     EARTH_RADIUS_KM        |-> EARTH_RADIUS_KM,
     MOON_RADIUS_KM         |-> MOON_RADIUS_KM,
     PLUTO_RADIUS_KM        |-> PLUTO_RADIUS_KM,
     CERES_RADIUS_KM        |-> CERES_RADIUS_KM,
     VESTA_RADIUS_KM        |-> VESTA_RADIUS_KM,
     ENCELADUS_RADIUS_KM    |-> ENCELADUS_RADIUS_KM,
     EROS_RADIUS_KM         |-> EROS_RADIUS_KM,
     HALLEY_NUCLEUS_KM      |-> HALLEY_NUCLEUS_KM,
     NEUTRON_STAR_RADIUS_KM |-> NEUTRON_STAR_RADIUS_KM,
     SUN_MIN_FRACTION       |-> SUN_MIN_FRACTION,
     HALF_MERCURY_ORBIT_KM  |-> HALF_MERCURY_ORBIT_KM,
     AU_SWITCH_KM           |-> AU_SWITCH_KM]


----------------------------------------------------------------------------
(* Sequence helpers standing for the list operations the script uses.      *)

\* The(S) is the element of a singleton S.  { F(x) : x \in {e} } binds x to
\* the value of e, so that e is computed once however often F uses x.
The(S) == CHOOSE x \in S : TRUE

Take(s, k) == SubSeq(s, 1, IF Len(s) < k THEN Len(s) ELSE k)     \* s[:k]

\* list.sort(key=lambda x: x[1]) is stable: an element goes after every
\* element already placed whose key is not greater.
RECURSIVE InsertAsc(_, _)
InsertAsc(sorted, x) ==
    IF sorted = << >> \/ ~FLess(x[2], sorted[Len(sorted)][2])
    THEN Append(sorted, x)
    ELSE Append(InsertAsc(SubSeq(sorted, 1, Len(sorted) - 1), x),
                sorted[Len(sorted)])

RECURSIVE SortAsc(_)
SortAsc(s) ==
    IF s = << >> THEN s
    ELSE InsertAsc(SortAsc(SubSeq(s, 1, Len(s) - 1)), s[Len(s)])

\* list.sort(key=..., reverse=True), stable as well.
RECURSIVE InsertDesc(_, _)
InsertDesc(sorted, x) ==
    IF sorted = << >> \/ FLess(Head(sorted)[2], x[2])
    THEN <<x>> \o sorted
    ELSE <<Head(sorted)>> \o InsertDesc(Tail(sorted), x)

RECURSIVE SortDesc(_)
SortDesc(s) ==
    IF s = << >> THEN s
    ELSE InsertDesc(SortDesc(SubSeq(s, 1, Len(s) - 1)), s[Len(s)])

\* max(...) over a non-empty sequence of numbers (first maximum wins).
RECURSIVE MaxOf(_)
MaxOf(s) ==
    IF Len(s) = 1 THEN s[1]
    ELSE FMax(MaxOf(SubSeq(s, 1, Len(s) - 1)), s[Len(s)])

\* [f(x) for x in xs]: concatenation turns the function into a sequence
\* whose elements are computed once.
Names(refs) == << >> \o [i \in 1..Len(refs) |-> refs[i][1]]

Radii(refs) == << >> \o [i \in 1..Len(refs) |-> refs[i][2]]

Times(refs, factor) == << >> \o [i \in 1..Len(refs) |-> FMul(refs[i][2], factor)]

Over(refs, divisor) ==
    << >> \o [i \in 1..Len(refs) |-> <<refs[i][1], FDiv(refs[i][2], divisor)>>]

----------------------------------------------------------------------------
(* schwarzschild_radius_km and the slider.                                 *)

\* The slider holds log10_mass in tenths: 0 .. 100 stands for 0.0 .. 10.0.
SliderMin == 0
SliderMax == 100
SliderDefault == 0
SliderValues == SliderMin..SliderMax

\* 10.0 ** (k / 10) for k = 0 .. 100 as <<mantissa, exponent>>.
PowerOfTen ==
    <<
       <<<<    0,     0,     0,  1024>>, -52>>,
       <<<< 9732,  9200,  2287,  1289>>, -52>>,
       <<<< 8275,  6993, 15247,  1622>>, -52>>,
       <<<<14511, 13678,  2434,  2043>>, -52>>,
       <<<< 3167, 10067,  1406,  1286>>, -51>>,
       <<<< 6995, 11113,  1411,  1619>>, -51>>,
       <<<<11743, 15689,  5057,  2038>>, -51>>,
       <<<< 4838,  3072,   644,  1283>>, -50>>,
       <<<< 2455,  2258,  4109,  1615>>, -50>>,
       <<<<13634, 15108,  7868,  2033>>, -50>>,
       <<<<    0,     0,     0,  1280>>, -49>>,
       <<<<12166,  7404,  6955,  1611>>, -49>>,
       <<<<14438,  4645, 10867,  2028>>, -49>>,
       <<<< 4974, 12645, 15857,  1276>>, -48>>,
       <<<<16245,  4391,  9950,  1607>>, -48>>,
       <<<<12839,  9795, 14052,  2023>>, -48>>,
       <<<< 1197,  3662, 15449,  1273>>, -47>>,
       <<<< 6048,  3840, 13093,  1603>>, -47>>,
       <<<<11260,  6918,  1040,  2019>>, -47>>,
       <<<<  328,  1251, 15158,  1270>>, -46>>,
       <<<<    0,     0,     0,  1600>>, -46>>,
       <<<<15208,  5159,  4598,  2014>>, -46>>,
       <<<<11075,   855, 14984,  1267>>, -45>>,
       <<<<10310,  3518,  3438,  1596>>, -45>>,
       <<<<16211, 13681,  8341,  2009>>, -45>>,
       <<<< 5977, 14314, 14926,  1264>>, -44>>,
       <<<< 9688,  8673,  7023,  1592>>, -44>>,
       <<<< 7564,  8896, 12270,  2004>>, -44>>,
       <<<< 2939,  4324, 14986,  1261>>, -43>>,
       <<<<12697,  9755, 10755,  1588>>, -43>>,
       <<<<    0,     0,     0,  2000>>, -43>>,
       <<<<15649, 15512, 15161,  1258>>, -42>>,
       <<<< 9747,  1069, 14634,  1584>>, -42>>,
       <<<< 4696, 12590,  4297,  1995>>, -42>>,
       <<<< 3988, 10599, 15453,  1255>>, -41>>,
       <<<<15663,  9700,  2274,  1581>>, -41>>,
       <<<<16206,  6745,  8779,  1990>>, -41>>,
       <<<< 4728,  1464, 15861,  1252>>, -40>>,
       <<<< 3674, 13597,  6444,  1577>>, -40>>,
       <<<<11776,  8098, 13444,  1985>>, -40>>,
       <<<<    0,     0,     0,  1250>>, -39>>,
       <<<< 3170,  7103, 10760,  1573>>, -39>>,
       <<<<16280,  9528,  1908,  1981>>, -39>>,
       <<<<15223,  1724,   638,  1247>>, -38>>,
       <<<<  896,   961, 15221,  1569>>, -38>>,
       <<<< 3194,  3934,  6939,  1976>>, -38>>,
       <<<< 3979,  2168,  1391,  1244>>, -37>>,
       <<<< 5910,  5926,  3442,  1566>>, -37>>,
       <<<< 8688,   612, 12152,  1971>>, -37>>,
       <<<<11461, 13253,  2258,  1241>>, -36>>,
       <<<<    0,     0,  8192,  1562>>, -36>>,
       <<<<16250,  8878,  1162,  1967>>, -36>>,
       <<<<10175, 14147,  3240,  1238>>, -35>>,
       <<<< 2645, 10348, 13085,  1558>>, -35>>,
       <<<< 5215,  5297,  6738,  1962>>, -35>>,
       <<<<14284,   410,  4337,  1235>>, -34>>,
       <<<< 4974, 14998,  1738,  1555>>, -34>>,
       <<<<15579, 15599, 12494,  1957>>, -34>>,
       <<<<13622,   382,  5547,  1232>>, -33>>,
       <<<< 2039,  8375,  6919,  1551>>, -33>>,
       <<<<    0,     0,  2048,  1953>>, -33>>,
       <<<< 6060,  9645,  6870,  1229>>, -32>>,
       <<<< 8623,  1300, 12243,  1547>>, -32>>,
       <<<< 3306,   647,  8165,  1948>>, -32>>,
       <<<<13500,  7406,  8307,  1226>>, -31>>,
       <<<< 9664,  4609,  1325,  1544>>, -31>>,
       <<<<14410, 10555, 14461,  1943>>, -31>>,
       <<<<15881,  5653,  9857,  1223>>, -30>>,
       <<<< 8836, 12766,  6933,  1540>>, -30>>,
       <<<<14837,  6372,  4553,  1939>>, -30>>,
       <<<<    0,     0, 11520,  1220>>, -29>>,
       <<<<11672,  3864, 12684,  1536>>, -29>>,
       <<<<10779, 13913, 11207,  1934>>, -29>>,
       <<<< 8210,  2452, 13295,  1217>>, -28>>,
       <<<< 8683,  5162,  2192,  1533>>, -28>>,
       <<<<16175,  9857,  1656,  1930>>, -28>>,
       <<<< 6958,  8645, 15182,  1214>>, -27>>,
       <<<< 7563, 11163,  8225,  1529>>, -27>>,
       <<<< 2852,  3670,  8667,  1925>>, -27>>,
       <<<< 1081, 14223,   797,  1212>>, -26>>,
       <<<<    0,     0, 14400,  1525>>, -26>>,
       <<<<14589,  4830, 15855,  1920>>, -26>>,
       <<<<  582, 14840,  2908,  1209>>, -25>>,
       <<<<10276, 15353,  4330,  1522>>, -25>>,
       <<<< 2661,  6453,  6836,  1916>>, -25>>,
       <<<< 3966,  6161,  5131,  1206>>, -24>>,
       <<<<12793,  2614, 10786,  1518>>, -24>>,
       <<<< 5341,  1666, 14378,  1911>>, -24>>,
       <<<<14082,   245,  7465,  1203>>, -23>>,
       <<<<13639,  5490,   997,  1515>>, -23>>,
       <<<<    0,     0,  5712,  1907>>, -23>>,
       <<<< 5022,  9163,  9909,  1200>>, -22>>,
       <<<<  727,  2166,  7732,  1511>>, -22>>,
       <<<<  557, 11000, 13605,  1902>>, -22>>,
       <<<< 3711, 12225, 12464,  1197>>, -21>>,
       <<<< 9053,  3605, 14606,  1507>>, -21>>,
       <<<< 7800, 11460,  5290,  1898>>, -21>>,
       <<<< 7434,  5137, 15130,  1194>>, -20>>,
       <<<< 5314,  4403,  5235,  1504>>, -20>>,
       <<<< 8857, 10959, 13534,  1893>>, -20>>,
       <<<<    0,     0,  1522,  1192>>, -19>>
    >>

\* mass_solar = 10 ** log10_mass
Pow10(tenths) ==
    [m |-> PowerOfTen[tenths + 1][1], e |-> PowerOfTen[tenths + 1][2]]

schwarzschild_radius_km(mass_solar) == FMul(g.R_sun_schwarzschild_km, mass_solar)

----------------------------------------------------------------------------
(* The two plot functions.  Each returns what it leaves on the axes:       *)
(*   refs     names of the reference list it chose from                    *)
(*   R_s      the event-horizon radius in plot units                       *)
(*   smaller  the smaller reference, a sequence of zero or one <<name, r>> *)
(*   larger   the larger references, in drawing order                      *)
(*   lim      the axis half-width (set_xlim / set_ylim)                    *)
(*   patches  the radii of the circles added with add_patch, in order      *)
(*   raised   TRUE when the function ends in an exception                  *)

ScaleOf(au) == IF au THEN g.AU_KM ELSE Whole(1)

\* Variant: the loop keeps the first orbit below R_s instead of the last.
RECURSIVE SmallerLoopFirst(_, _, _, _)
SmallerLoopFirst(i, R_s, orbits, found) ==
    IF i > Len(orbits) THEN found
    ELSE SmallerLoopFirst(i + 1, R_s, orbits,
                          IF found = << >> /\ FLess(orbits[i][2], R_s)
                          THEN <<orbits[i]>> ELSE found)

\* for name, r in zip(...): if r_scaled < R_s: smaller = (name, r_scaled)
RECURSIVE SmallerLoop(_, _, _, _)
SmallerLoop(i, R_s, orbits, found) ==
    IF i > Len(orbits) THEN found
    ELSE SmallerLoop(i + 1, R_s, orbits,
                     IF FLess(orbits[i][2], R_s) THEN <<orbits[i]>> ELSE found)

\* for name, r in zip(...): if r_scaled > R_s: larger_list.append(...)
RECURSIVE LargerLoop(_, _, _)
LargerLoop(i, R_s, orbits) ==
    IF i > Len(orbits) THEN << >>
    ELSE (IF FLess(R_s, orbits[i][2]) THEN <<orbits[i]>> ELSE << >>)
         \o LargerLoop(i + 1, R_s, orbits)

\* Variant: the marker sits on the event horizon itself.
SyntheticMarkerAtHorizon(R_s) == <<"1.2 x R_s (scale)", R_s>>

SyntheticMarker(R_s) == <<"1.2 x R_s (scale)", FMul(R_s, Dec(12, 1))>>

SunFallback(scale) == <<"Sun (radius)", FDiv(g.SUN_RADIUS_KM, scale)>>

\* if smaller_r is None and not use_au: fall back to the Sun's radius
SmallerOrSun(found, scale, au) ==
    IF found = << >> /\ ~au THEN <<SunFallback(scale)>> ELSE found

\* if not larger_list and R_s > 0: the synthetic marker
LargerOrMarker(first_two, R_s) ==
    IF first_two = << >> /\ FLess(Whole(0), R_s)
    THEN <<SyntheticMarker(R_s)>> ELSE first_two

\* Variant: the axis is sized from the event horizon alone.
MaxPlotRHorizonOnly(R_s, smaller, larger) == FMul(R_s, Dec(12, 1))

\* max_plot_r: R_s * 1.2, raised to 1.1 times every reference radius
MaxPlotR(R_s, smaller, larger) ==
    MaxOf(<<FMul(R_s, Dec(12, 1))>>
          \o Times(smaller, Dec(11, 1)) \o Times(larger, Dec(11, 1)))

LargeAxes(R_s, smaller, larger) ==
    [refs    |-> Names(g.ORBITS_KM),
     R_s     |-> R_s,
     smaller |-> smaller,
     larger  |-> larger,
     lim     |-> FMul(MaxPlotR(R_s, smaller, larger), Dec(105, 2)),
     patches |-> <<R_s>> \o Radii(smaller) \o Radii(larger),
     raised  |-> FALSE]

LargeScaled(R_s, scale, orbits, au) ==
    The({ LargeAxes(R_s, smaller, larger) :
            smaller \in {SmallerOrSun(SmallerLoop(1, R_s, orbits, << >>),
                                      scale, au)},
            larger  \in {LargerOrMarker(
                             Take(SortAsc(LargerLoop(1, R_s, orbits)), 2),
                             R_s)} })

\* orbits is the catalog with every radius divided by scale (r_scaled).
plot_large_black_hole(r_km, au) ==
    The({ LargeScaled(R_s, ScaleOf(au), orbits, au) :
            R_s    \in {FDiv(r_km, ScaleOf(au))},
            orbits \in {Over(g.ORBITS_KM, ScaleOf(au))} })

NearRefs ==
    << <<"Eros (asteroid)",               g.EROS_RADIUS_KM>>,
       <<"Neutron star (typical radius)", g.NEUTRON_STAR_RADIUS_KM>>,
       <<"Enceladus (moon of Saturn)",    g.ENCELADUS_RADIUS_KM>>,
       <<"Vesta (asteroid)",              g.VESTA_RADIUS_KM>>,
       <<"Ceres (dwarf planet)",          g.CERES_RADIUS_KM>>,
       <<"Moon (Earth's moon)",           g.MOON_RADIUS_KM>>,
       <<"Earth (radius)",                g.EARTH_RADIUS_KM>> >>

FarRefs ==
    Append(<< <<"Neutron star (typical radius)", g.NEUTRON_STAR_RADIUS_KM>>,
              <<"Halley's comet nucleus",        g.HALLEY_NUCLEUS_KM>>,
              <<"Vesta (asteroid)",              g.VESTA_RADIUS_KM>>,
              <<"Ceres (dwarf planet)",          g.CERES_RADIUS_KM>>,
              <<"Pluto (dwarf planet)",          g.PLUTO_RADIUS_KM>>,
              <<"Earth (radius)",                g.EARTH_RADIUS_KM>>,
              <<"Jupiter (radius)",              g.JUPITER_RADIUS_KM>> >>,
           <<"Sun (radius)", g.SUN_RADIUS_KM>>)

\* refs chosen by the test on line 142
SmallRefs(r_km) ==
    IF FLess(r_km, FMul(g.SUN_MIN_FRACTION, g.SUN_RADIUS_KM))
    THEN NearRefs ELSE FarRefs

\* [(name, r / scale) for name, r in refs if r < R_s_km]
RECURSIVE SmallerOf(_, _, _)
SmallerOf(refs, r_km, scale) ==
    IF refs = << >> THEN << >>
    ELSE (IF FLess(Head(refs)[2], r_km)
          THEN << <<Head(refs)[1], FDiv(Head(refs)[2], scale)>> >> ELSE << >>)
         \o SmallerOf(Tail(refs), r_km, scale)

\* Variant: the filter for larger bodies uses >= instead of >.
RECURSIVE LargerOfInclusive(_, _, _)
LargerOfInclusive(refs, r_km, scale) ==
    IF refs = << >> THEN << >>
    ELSE (IF ~FLess(Head(refs)[2], r_km)
          THEN << <<Head(refs)[1], FDiv(Head(refs)[2], scale)>> >> ELSE << >>)
         \o LargerOfInclusive(Tail(refs), r_km, scale)

\* [(name, r / scale) for name, r in refs if r > R_s_km]
RECURSIVE LargerOf(_, _, _)
LargerOf(refs, r_km, scale) ==
    IF refs = << >> THEN << >>
    ELSE (IF FLess(r_km, Head(refs)[2])
          THEN << <<Head(refs)[1], FDiv(Head(refs)[2], scale)>> >> ELSE << >>)
         \o LargerOf(Tail(refs), r_km, scale)

\* Variants: the slices are forgotten; the smaller body is left out.
ToDrawAll(smaller, larger) == smaller \o larger
ToDrawLargerOnly(smaller, larger) == Take(larger, 2)

ToDraw(smaller, larger) == Take(smaller, 1) \o Take(larger, 2)

\* lim = max(R_s_km, max_drawn_km) * 1.25 / scale
SmallLim(r_km, to_draw, scale) ==
    FDiv(FMul(FMax(r_km,
                   MaxOf(Times(to_draw, scale))),
              Dec(125, 2)),
         scale)

SmallAxes(r_km, scale, refs, smaller, larger, to_draw) ==
    IF to_draw = << >>
    THEN \* max() of an empty sequence raises ValueError
         [refs    |-> Names(refs),
          R_s     |-> FDiv(r_km, scale),
          smaller |-> << >>,
          larger  |-> << >>,
          lim     |-> Whole(0),
          patches |-> << >>,
          raised  |-> TRUE]
    ELSE [refs    |-> Names(refs),
          R_s     |-> FDiv(r_km, scale),
          smaller |-> Take(smaller, 1),
          larger  |-> Take(larger, 2),
          lim     |-> SmallLim(r_km, to_draw, scale),
          patches |-> <<FDiv(r_km, scale)>> \o Radii(to_draw),
          raised  |-> FALSE]

SmallFrom(r_km, scale, refs) ==
    The({ SmallAxes(r_km, scale, refs, smaller, larger,
                    ToDraw(smaller, larger)) :
            smaller \in {SortDesc(SmallerOf(refs, r_km, scale))},
            larger  \in {SortAsc(LargerOf(refs, r_km, scale))} })

plot_small_black_hole(r_km, au) ==
    SmallFrom(r_km, ScaleOf(au), SmallRefs(r_km))

----------------------------------------------------------------------------
(* The script run.                                                         *)

MaxPasses == 3

EmptyAx ==
    [refs |-> << >>, R_s |-> Whole(0), smaller |-> << >>, larger |-> << >>,
     lim |-> Whole(0), patches |-> << >>, raised |-> FALSE]

\* pyplot numbers a new figure one above the highest open number.
NewFigure(open) ==
    IF open = {} THEN 1
    ELSE (CHOOSE f \in open : \A h \in open : h <= f) + 1

\* fig, ax = plt.subplots(...)
Subplots(open) == open \cup {NewFigure(open)}

\* Variant: the figure is never closed.
CloseNothing(open) == open

\* plt.close() closes the current figure, the one created last.
Close(open) ==
    open \ {f \in open : \A h \in open : h <= f}

\* Variants: >= instead of >; the switch at a whole astronomical unit.
UseAuInclusive(r_km) == FLeq(g.AU_SWITCH_KM, r_km)
UseAuAboveOneAu(r_km) == FLess(g.AU_KM, r_km)

\* use_au = R_s_km > AU_SWITCH_KM
UseAu(r_km) == FLess(g.AU_SWITCH_KM, r_km)

\* Variant: > instead of >=.
IsLargeStrict(r_km) == FLess(g.HALF_MERCURY_ORBIT_KM, r_km)

\* if R_s_km >= HALF_MERCURY_ORBIT_KM
IsLarge(r_km) == FLeq(g.HALF_MERCURY_ORBIT_KM, r_km)

\* plt.tight_layout(); st.pyplot(fig); plt.close() are reached only when
\* the plot function returned.
Finish(r_km, au, large, axis) ==
    /\ R_s_km'  = r_km
    /\ use_au'  = au
    /\ plotted' = IF large THEN "plot_large_black_hole"
                           ELSE "plot_small_black_hole"
    /\ ax'      = axis
    /\ figs'    = IF axis.raised THEN Subplots(figs) ELSE Close(Subplots(figs))
    /\ entry'   = "main"
    /\ passes'  = passes + 1
    /\ UNCHANGED g

Dispatch(r_km, au, large) ==
    \E axis \in {IF large THEN plot_large_black_hole(r_km, au)
                          ELSE plot_small_black_hole(r_km, au)} :
        Finish(r_km, au, large, axis)

\* main() from the line after the slider on, for a given radius.
MainBody(r_km) == Dispatch(r_km, UseAu(r_km), IsLarge(r_km))

RadiusOf(v) == schwarzschild_radius_km(Pow10(v))

Init ==
    /\ log10_mass = SliderDefault
    /\ passes = 0
    /\ entry = "none"
    /\ R_s_km = Whole(0)
    /\ use_au = FALSE
    /\ plotted = "none"
    /\ ax = EmptyAx
    /\ figs = {}
    /\ g = ModuleGlobals

\* The runner executes the script once when the page is opened.
Launch ==
    /\ passes = 0
    /\ UNCHANGED log10_mass
    /\ \E r_km \in {RadiusOf(log10_mass)} : MainBody(r_km)

\* Every interaction with the slider reruns the whole script.
SliderChange(v) ==
    /\ passes >= 1
    /\ passes < MaxPasses
    /\ log10_mass' = v
    /\ \E r_km \in {RadiusOf(v)} : MainBody(r_km)

Next == Launch \/ \E v \in SliderValues : SliderChange(v)

Spec == Init /\ [][Next]_vars

----------------------------------------------------------------------------
(* The functions applied to chosen arguments.  Init draws a radius and a   *)
(* unit flag; one step applies main's body or one of the plot functions.   *)
(* The radii are the ones the slider produces, every threshold and catalog *)
(* radius, the values a millionth below and above each of these, and       *)
(* 5,000 km.                                                               *)

Landmarks ==
    {g.ORBITS_KM[i][2] : i \in 1..Len(g.ORBITS_KM)}
    \cup {NearRefs[i][2] : i \in 1..Len(NearRefs)}
    \cup {FarRefs[i][2] : i \in 1..Len(FarRefs)}
    \cup {g.HALF_MERCURY_ORBIT_KM, g.AU_SWITCH_KM,
          FMul(g.SUN_MIN_FRACTION, g.SUN_RADIUS_KM)}

Probes ==
    {RadiusOf(v) : v \in SliderValues}
    \cup Landmarks
    \cup {FMul(x, Dec(999999, 6))  : x \in Landmarks}
    \cup {FMul(x, Dec(1000001, 6)) : x \in Landmarks}
    \cup {Whole(5000)}

InitFn ==
    /\ g = ModuleGlobals
    /\ log10_mass = SliderDefault
    /\ passes = 0
    /\ entry = "none"
    /\ R_s_km \in Probes
    /\ use_au \in BOOLEAN
    /\ plotted = "none"
    /\ ax = EmptyAx
    /\ figs = {}

\* main() entered with R_s_km already computed
CallMain ==
    /\ entry = "none"
    /\ UNCHANGED log10_mass
    /\ MainBody(R_s_km)

CallLarge ==
    /\ entry = "none"
    /\ ax' = plot_large_black_hole(R_s_km, use_au)
    /\ plotted' = "plot_large_black_hole"
    /\ entry' = "plot_large_black_hole"
    /\ UNCHANGED <<log10_mass, passes, R_s_km, use_au, figs, g>>

CallSmall ==
    /\ entry = "none"
    /\ ax' = plot_small_black_hole(R_s_km, use_au)
    /\ plotted' = "plot_small_black_hole"
    /\ entry' = "plot_small_black_hole"
    /\ UNCHANGED <<log10_mass, passes, R_s_km, use_au, figs, g>>

NextFn == CallMain \/ CallLarge \/ CallSmall

SpecFn == InitFn /\ [][NextFn]_vars

----------------------------------------------------------------------------
(* Properties.                                                             *)

Large == plotted = "plot_large_black_hole"
Small == plotted = "plot_small_black_hole"
NearBranch == Small /\ ax.refs = Names(NearRefs)
FarBranch  == Small /\ ax.refs = Names(FarRefs)

MercuryOrbitKm == g.ORBITS_KM[1][2]
HalfMercuryKm  == FDiv(MercuryOrbitKm, Whole(2))
TenthOfSunKm   == FDiv(g.SUN_RADIUS_KM, Whole(10))
\* 0.05 * 149_597_870.7 = 7_479_893.535
TwentiethAuKm  == FDiv(ToFloat(MulC(FromInt(1495978707), 5, 0)), Whole(1000))

\* C1: main chooses the plot function from the radius alone: large-scale
\* exactly when R_s_km is at least half of Mercury's orbital radius (equality
\* included), otherwise small-scale, with the near-Sun list exactly when
\* R_s_km is below a tenth of the Sun's radius and the far list otherwise.
ModeFromRadius ==
    entry = "main" =>
        /\ Large \/ Small
        /\ Large <=> ~FLess(R_s_km, HalfMercuryKm)
        /\ Large => ax.refs = Names(g.ORBITS_KM)
        /\ Small => /\ NearBranch <=> FLess(R_s_km, TenthOfSunKm)
                    /\ FarBranch  <=> ~FLess(R_s_km, TenthOfSunKm)

ModeAtHalfMercury ==
    entry = "main" /\ FEq(R_s_km, HalfMercuryKm) /\ Large

\* C2: the unit flag is AU exactly when R_s_km is strictly greater than
\* 0.05 AU in km; the largest slider value gives AU.
UnitFromRadius ==
    entry = "main" =>
        /\ use_au <=> FLess(TwentiethAuKm, R_s_km)
        /\ FEq(R_s_km, TwentiethAuKm) => ~use_au
        /\ FEq(R_s_km, RadiusOf(SliderMax)) => use_au

UnitAtSwitch ==
    entry = "main" /\ FEq(R_s_km, TwentiethAuKm) /\ ~use_au

\* The orbit catalog in plot units, and the orbits on either side of R_s.
ScaledOrbit(i) == FDiv(g.ORBITS_KM[i][2], ScaleOf(use_au))
OrbitEntry(i)  == <<g.ORBITS_KM[i][1], ScaledOrbit(i)>>
OrbitsBelow == {i \in 1..Len(g.ORBITS_KM) : FLess(ScaledOrbit(i), ax.R_s)}
OrbitsAbove == {i \in 1..Len(g.ORBITS_KM) : FLess(ax.R_s, ScaledOrbit(i))}
WidestOrbit(S)   == CHOOSE i \in S : \A j \in S : ~FLess(ScaledOrbit(i), ScaledOrbit(j))
TightestOrbit(S) == CHOOSE i \in S : \A j \in S : ~FLess(ScaledOrbit(j), ScaledOrbit(i))
TwoTightest(S) ==
    IF S \ {TightestOrbit(S)} = {}
    THEN <<OrbitEntry(TightestOrbit(S))>>
    ELSE <<OrbitEntry(TightestOrbit(S)),
           OrbitEntry(TightestOrbit(S \ {TightestOrbit(S)}))>>

\* C3: plot_large_black_hole takes as smaller reference the orbit with the
\* largest radius strictly below R_s and as larger references the two orbits
\* with the smallest radii strictly above R_s, in ascending order; between
\* Earth's and Mars's orbit that is Earth, then Mars and Ceres.
LargeSelection ==
    Large =>
        /\ OrbitsBelow # {} => ax.smaller = <<OrbitEntry(WidestOrbit(OrbitsBelow))>>
        /\ OrbitsAbove # {} => ax.larger = TwoTightest(OrbitsAbove)
        /\ FLess(ScaledOrbit(3), ax.R_s) /\ FLess(ax.R_s, ScaledOrbit(4)) =>
              /\ Names(ax.smaller) = <<"Earth">>
              /\ Names(ax.larger) = <<"Mars", "Ceres">>

BetweenEarthAndMars ==
    /\ Large
    /\ FLess(ScaledOrbit(3), ax.R_s) /\ FLess(ax.R_s, ScaledOrbit(4))
    /\ Names(ax.smaller) = <<"Earth">>

\* The reference list of the small-scale plot and the bodies on either side.
RefsUsed == IF ax.refs = Names(NearRefs) THEN NearRefs ELSE FarRefs
BodyEntry(i) == <<RefsUsed[i][1], FDiv(RefsUsed[i][2], ScaleOf(use_au))>>
BodiesBelow == {i \in 1..Len(RefsUsed) : FLess(RefsUsed[i][2], R_s_km)}
BodiesAbove == {i \in 1..Len(RefsUsed) : FLess(R_s_km, RefsUsed[i][2])}
BodiesEqual == {i \in 1..Len(RefsUsed) : FEq(RefsUsed[i][2], R_s_km)}
BiggestBody(S)  == CHOOSE i \in S : \A j \in S : ~FLess(RefsUsed[i][2], RefsUsed[j][2])
SmallestBody(S) == CHOOSE i \in S : \A j \in S : ~FLess(RefsUsed[j][2], RefsUsed[i][2])
TwoSmallest(S) ==
    IF S = {} THEN << >>
    ELSE IF S \ {SmallestBody(S)} = {}
         THEN <<BodyEntry(SmallestBody(S))>>
         ELSE <<BodyEntry(SmallestBody(S)),
                BodyEntry(SmallestBody(S \ {SmallestBody(S)}))>>
DrawnNames == {ax.smaller[i][1] : i \in 1..Len(ax.smaller)}
              \cup {ax.larger[i][1] : i \in 1..Len(ax.larger)}

\* C4: plot_small_black_hole draws the closest body strictly smaller than
\* R_s followed by the two closest bodies strictly larger, ascending; a body
\* equal to R_s is not drawn; at 5,000 km that is Moon, then Earth alone.
SmallSelection ==
    Small /\ ~ax.raised =>
        /\ ax.smaller = IF BodiesBelow = {} THEN << >>
                        ELSE <<BodyEntry(BiggestBody(BodiesBelow))>>
        /\ ax.larger = TwoSmallest(BodiesAbove)
        /\ ax.patches = <<ax.R_s>> \o Radii(ax.smaller) \o Radii(ax.larger)
        /\ \A i \in BodiesEqual : RefsUsed[i][1] \notin DrawnNames
        /\ FEq(R_s_km, Whole(5000)) =>
              /\ Names(ax.smaller) = <<"Moon (Earth's moon)">>
              /\ Names(ax.larger) = <<"Earth (radius)">>

BodyEqualToHorizon ==
    Small /\ ~ax.raised /\ BodiesEqual # {} /\ BodiesAbove # {}

\* C5: a pass draws the event horizon and at most three reference circles:
\* at most one smaller than the horizon and at most two larger.
AtMostThreeReferences ==
    passes >= 1 =>
        /\ Len(ax.smaller) <= 1
        /\ Len(ax.larger) <= 2
        /\ ax.patches = <<ax.R_s>> \o Radii(ax.smaller) \o Radii(ax.larger)
        /\ Len(ax.patches) <= 4
        /\ \A i \in 1..Len(ax.smaller) : FLess(ax.smaller[i][2], ax.R_s)
        /\ \A i \in 1..Len(ax.larger)  : FLess(ax.R_s, ax.larger[i][2])

ThreeReferencesDrawn ==
    passes >= 1 /\ Len(ax.patches) = 4

\* C6: no pass raises; in small-scale mode the set of bodies to draw is not
\* empty when its maximum is taken.
NoPassRaises ==
    /\ ~ax.raised
    /\ Small => Len(ax.smaller) + Len(ax.larger) >= 1

OnlySmallerDrawn ==
    passes >= 1 /\ Small /\ ~ax.raised /\ Len(ax.smaller) = 1 /\ ax.larger = << >>

\* C7: every step is one full pass that ends with no figure open and leaves
\* the constants and catalogs as they were, and a pass at an unchanged slider
\* value shows what the pass before it showed.
PassesAreIndependent ==
    [][ /\ passes' = passes + 1
        /\ entry' = "main"
        /\ ~ax'.raised
        /\ figs' = {}
        /\ g' = g
        /\ g' = ModuleGlobals
        /\ (passes >= 1 /\ log10_mass' = log10_mass) =>
              <<R_s_km, use_au, plotted, ax>>' = <<R_s_km, use_au, plotted, ax>>
      ]_vars

SecondPassDone ==
    passes >= 2 /\ entry = "main" /\ figs = {} /\ log10_mass # SliderDefault

\* Exact comparison of floats as real numbers: ka * a <= kb * b for naturals
\* ka and kb, after bringing both mantissas to the smaller exponent.
AtExponent(a, e) == MulB(a.m, Pow2B(a.e - e))
LowerExponent(a, b) == IF a.e < b.e THEN a.e ELSE b.e
ExactLeq(ka, a, kb, b) ==
    ~LessB(MulB(kb, AtExponent(b, LowerExponent(a, b))),
           MulB(ka, AtExponent(a, LowerExponent(a, b))))

LargestDrawn == MaxOf(ax.patches)

\* C8 as stated: the axis half-width is at least 1.05 times and at most 1.25
\* times the largest radius drawn (event horizon, references and synthetic
\* marker), as real numbers: 21 * r <= 20 * lim and 4 * lim <= 5 * r.
AxisLimitInRange ==
    passes >= 1 /\ ~ax.raised =>
        /\ ExactLeq(FromInt(21), LargestDrawn, FromInt(20), ax.lim)
        /\ ExactLeq(FromInt(4), ax.lim, FromInt(5), LargestDrawn)

\* 2^51 and 2^51 + 1
TwoTo51 == Pow2B(51)
TwoTo51Plus1 == MulC(Pow2B(51), 1, 1)

\* C8: the axis half-width is at least 1.05 times the largest radius drawn
\* and at most 1.25 * (1 + 2^-51) times it: the upper bound holds up to the
\* rounding of the two or three float operations between them.
AxisLimitWithinRounding ==
    passes >= 1 /\ ~ax.raised =>
        /\ ExactLeq(FromInt(21), LargestDrawn, FromInt(20), ax.lim)
        /\ ExactLeq(MulC(TwoTo51, 4, 0), ax.lim,
                    MulC(TwoTo51Plus1, 5, 0), LargestDrawn)

LimitRoundedAbove ==
    /\ passes >= 1
    /\ ~ax.raised
    /\ ~ExactLeq(FromInt(4), ax.lim, FromInt(5), LargestDrawn)

\* C9: in plot_large_black_hole, with no orbit strictly below R_s and km as
\* unit the smaller reference is the Sun's radius; with no orbit strictly
\* above R_s the only larger reference is the marker at 1.2 times R_s.
LargeFallbacks ==
    Large =>
        /\ (OrbitsBelow = {} /\ ~use_au) =>
              ax.smaller = << <<"Sun (radius)", g.SUN_RADIUS_KM>> >>
        /\ OrbitsAbove = {} =>
              /\ Len(ax.larger) = 1
              /\ ax.larger[1][1] = "1.2 x R_s (scale)"
              /\ FEq(ax.larger[1][2], FMul(ax.R_s, Dec(12, 1)))

BeyondErisInKm ==
    /\ entry = "plot_large_black_hole"
    /\ ~use_au
    /\ OrbitsAbove = {}
    /\ Len(ax.larger) = 1

\* C10: through main, large-scale mode always comes with AU (the Sun-radius
\* fallback is never taken, and below Mercury's orbit no smaller reference is
\* drawn) and the near-Sun branch always comes with km.
ModeUnitCoupling ==
    passes >= 1 =>
        /\ Large => /\ use_au
                    /\ "Sun (radius)" \notin DrawnNames
                    /\ FLess(R_s_km, MercuryOrbitKm) => ax.smaller = << >>
        /\ NearBranch => ~use_au

LargeBelowMercury ==
    passes >= 1 /\ Large /\ FLess(R_s_km, MercuryOrbitKm) /\ ax.smaller = << >>

====
